---- MODULE Spec2Model ----
(***************************************************************************)
(* Task-management backend: the relational tables (groups, group_members,  *)
(* tasks, task_updates) and the Express handlers that read and write them. *)
(* Every handler is a sequence of awaited database statements; each        *)
(* statement is one atomic step, so two requests interleave exactly where  *)
(* the Node.js event loop lets them: between two awaits.                   *)
(***************************************************************************)
EXTENDS Integers, Sequences, FiniteSets, TLC

\* ------------------------------------------------------------------ bounds
\* users registered before the run (ids 1..NumUsers, all active)
NumUsers == 3
\* requests issued in one run
MaxReq == 3
\* requests being handled at the same time
MaxInFlight == 2
\* instants a request may name: MaxTime consecutive ticks
MaxTime == 3
\* ticks in one second (ISO 8601 instants carry fractions of a second, the
\* formatted string and the DATETIME columns whole seconds)
TicksPerSecond == 2
\* ids a request may name for a group / a task
MaxGroupId == 1
MaxTaskId == 1

Users == 1..NumUsers
Slots == 1..MaxInFlight
Times == TicksPerSecond..(TicksPerSecond + MaxTime - 1)

\* SQL NULL and a JavaScript undefined field (ids and times start at 1)
NULL == 0
NoStatus == "null"

Statuses == {"pending", "in_progress", "completed", "overdue"}
Roles == {"admin", "member"}

\* the five tables, the ids of the users rows with is_active = true, the
\* browser client (its localStorage and the API request it is making), the
\* requests being handled or last answered (one per slot), and the number of
\* requests issued so far
VARIABLES groups, group_members, tasks, task_updates, notification_logs,
          active_users, client, req, issued

vars == <<groups, group_members, tasks, task_updates, notification_logs,
          active_users, client, req, issued>>

\* -------------------------------------------------------------------- tokens
\* a JSON web token: the userId of its payload, whether its signature is the
\* one JWT_SECRET gives, whether its exp lies in the past
Tokens == [userId : Users, signed : BOOLEAN, expired : BOOLEAN]

\* no token (undefined in a body, null in localStorage)
NoToken == [userId |-> NULL, signed |-> FALSE, expired |-> FALSE]

\* the client with an empty localStorage and no request under way
NoClient == [token |-> NoToken, user |-> FALSE, pc |-> "idle", retry |-> FALSE,
             status |-> 0, refreshes |-> 0, replays |-> 0]

\* ------------------------------------------------------------- request slots
NoTask == [id |-> NULL, start_time |-> NULL, end_time |-> NULL, status |-> NoStatus,
           created_by |-> NULL, assigned_to |-> NULL, group_id |-> NULL,
           group_admin_id |-> NULL]

\* a request: its route (op), the awaited statement it stands before (pc), the
\* principal (req.user.id, req.user.user_type), req.params (gid, tid, uid, nid), req.body (role, name,
\* start_time, end_time, status, assigned_to, token), the handler's locals (task,
\* isGroupAdmin, insertId) and its answer (code, message)
Idle == [op |-> "idle", pc |-> "idle", user |-> NULL, user_type |-> "", gid |-> NULL, tid |-> NULL,
         uid |-> NULL, nid |-> NULL, token |-> NoToken, newToken |-> NoToken, role |-> "", name |-> "", start_time |-> NULL,
         end_time |-> NULL, status |-> NoStatus, assigned_to |-> NULL,
         task |-> NoTask, isGroupAdmin |-> FALSE, insertId |-> NULL,
         code |-> 0, message |-> ""]

\* res.status(code).json({message}): the request is answered; what is kept of
\* it is the route, the principal, the ids of its path and the answer
Respond(r, code, message) ==
  [Idle EXCEPT !.op = r.op, !.pc = "done", !.user = r.user,
               !.user_type = r.user_type, !.gid = r.gid,
               !.tid = r.tid, !.uid = r.uid, !.nid = r.nid, !.token = r.token,
               !.code = code, !.message = message]

\* a request arrives: it takes the first slot that handles none (the answer
\* kept there is dropped)
Free(s) == req[s].pc \in {"idle", "done"}

CanStart(s) ==
  /\ issued < MaxReq
  /\ Free(s)
  /\ \A t \in Slots : t < s => ~Free(t)

Running(s, op, pc) == req[s].op = op /\ req[s].pc = pc

\* the error middleware answers a statement that threw (asyncHandler passes the
\* rejection on): a datastore failure
errorHandler(r) == Respond(r, 500, "DependencyError")

\* ------------------------------------------------------------------- users
\* users.user_type ENUM('individual', 'group_admin'), default 'individual': the
\* users are registered before the requests; user 1 registered as a group admin
user_type(u) == IF u = 1 THEN "group_admin" ELSE "individual"

\* requireAdmin: 200 standing for next()
requireAdmin(u) == IF user_type(u) # "group_admin" THEN 403 ELSE 200

\* ------------------------------------------------------------------ tables
GroupIds == 1..Len(groups)
TaskIds == 1..Len(tasks)

\* SELECT admin_id FROM groups WHERE id = ? AND is_active = true
ActiveGroup(g) == g \in GroupIds /\ groups[g].is_active

\* SELECT ... FROM group_members WHERE group_id = ? AND user_id = ?
MemberRows(g, u) == {m \in group_members : m.group_id = g /\ m.user_id = u}

\* UNIQUE KEY unique_group_user (group_id, user_id)
UniqueGroupUser(g, u) == MemberRows(g, u) = {}

Init ==
  /\ groups = <<>>
  /\ group_members = {}
  /\ tasks = <<>>
  /\ task_updates = <<>>
  /\ notification_logs = <<>>
  /\ active_users = Users
  /\ client = NoClient
  /\ req = [s \in Slots |-> Idle]
  /\ issued = 0

\* --------------------------------------------------------- POST /api/groups
\* name check: SELECT id FROM groups WHERE name = ? AND admin_id = ? AND is_active
CreateGroup_Check(s, u, name) ==
  /\ CanStart(s)
  /\ LET r == [Idle EXCEPT !.op = "CreateGroup", !.user = u, !.name = name]
         existingGroups == {g \in GroupIds : /\ groups[g].name = name
                                             /\ groups[g].admin_id = u
                                             /\ groups[g].is_active}
     IN req' = [req EXCEPT ![s] =
                  IF existingGroups # {}
                  THEN Respond(r, 400, "A group with this name already exists")
                  ELSE [r EXCEPT !.pc = "insert_group"]]
  /\ UNCHANGED <<active_users, client, notification_logs, groups, group_members, tasks, task_updates>>
  /\ issued' = issued + 1

\* INSERT INTO groups (name, description, admin_id)
CreateGroup_Insert(s) ==
  /\ Running(s, "CreateGroup", "insert_group")
  /\ groups' = Append(groups, [name |-> req[s].name, admin_id |-> req[s].user,
                               is_active |-> TRUE])
  /\ req' = [req EXCEPT ![s].pc = "insert_member", ![s].insertId = Len(groups) + 1]
  /\ UNCHANGED <<active_users, client, notification_logs, group_members, tasks, task_updates, issued>>

\* INSERT INTO group_members (group_id, user_id, 'admin')
CreateGroup_Member(s) ==
  /\ Running(s, "CreateGroup", "insert_member")
  /\ LET r == req[s] IN
     IF UniqueGroupUser(r.insertId, r.user)
     THEN /\ group_members' = group_members \cup
                {[group_id |-> r.insertId, user_id |-> r.user, role |-> "admin"]}
          /\ req' = [req EXCEPT ![s] = Respond(r, 201, "Group created successfully")]
     ELSE /\ group_members' = group_members
          /\ req' = [req EXCEPT ![s] = errorHandler(r)]
  /\ UNCHANGED <<active_users, client, notification_logs, groups, tasks, task_updates, issued>>

\* ------------------------------------------------ POST /api/groups/:id/members
\* the e-mail address of user u is its id; NULL is an address no user has.
\* SELECT id FROM users WHERE email = ? AND is_active = true
UserByEmail(email) == {u \in Users : u = email}

\* group check, admin check, user lookup (users is not written by any handler)
AddMember_Check(s, u, g, email, role) ==
  /\ CanStart(s)
  /\ LET r == [Idle EXCEPT !.op = "AddMember", !.user = u, !.gid = g,
                           !.uid = email, !.role = role]
     IN req' = [req EXCEPT ![s] =
                  IF ~ActiveGroup(g) THEN Respond(r, 404, "Group not found")
                  ELSE IF groups[g].admin_id # u
                  THEN Respond(r, 403, "Only group admin can add members")
                  ELSE IF UserByEmail(email) = {}
                  THEN Respond(r, 404, "User not found with this email")
                  ELSE [r EXCEPT !.pc = "check_member"]]
  /\ UNCHANGED <<active_users, client, notification_logs, groups, group_members, tasks, task_updates>>
  /\ issued' = issued + 1

\* SELECT id FROM group_members WHERE group_id = ? AND user_id = ?
AddMember_Existing(s) ==
  /\ Running(s, "AddMember", "check_member")
  /\ LET r == req[s] IN
     req' = [req EXCEPT ![s] =
               IF MemberRows(r.gid, r.uid) # {}
               THEN Respond(r, 400, "User is already a member of this group")
               ELSE [r EXCEPT !.pc = "insert_member"]]
  /\ UNCHANGED <<active_users, client, notification_logs, groups, group_members, tasks, task_updates, issued>>

\* INSERT INTO group_members (group_id, user_id, role)
AddMember_Insert(s) ==
  /\ Running(s, "AddMember", "insert_member")
  /\ LET r == req[s] IN
     IF UniqueGroupUser(r.gid, r.uid)
     THEN /\ group_members' = group_members \cup
                {[group_id |-> r.gid, user_id |-> r.uid, role |-> r.role]}
          /\ req' = [req EXCEPT ![s] =
                       Respond(r, 201, "Member added to group successfully")]
     ELSE /\ group_members' = group_members
          /\ req' = [req EXCEPT ![s] = errorHandler(r)]
  /\ UNCHANGED <<active_users, client, notification_logs, groups, tasks, task_updates, issued>>

\* ------------------------------ DELETE /api/groups/:groupId/members/:userId
\* the handler without its check of userId against the admin
RemoveMember_Check_NoAdminCheck(s, u, g, userId) ==
  /\ CanStart(s)
  /\ LET r == [Idle EXCEPT !.op = "RemoveMember", !.user = u, !.gid = g,
                           !.uid = userId]
     IN req' = [req EXCEPT ![s] =
                  IF ~ActiveGroup(g) THEN Respond(r, 404, "Group not found")
                  ELSE IF groups[g].admin_id # u
                  THEN Respond(r, 403, "Only group admin can remove members")
                  ELSE [r EXCEPT !.pc = "check_member"]]
  /\ UNCHANGED <<active_users, client, notification_logs, groups, group_members, tasks, task_updates>>
  /\ issued' = issued + 1

RemoveMember_Check(s, u, g, userId) ==
  /\ CanStart(s)
  /\ LET r == [Idle EXCEPT !.op = "RemoveMember", !.user = u, !.gid = g,
                           !.uid = userId]
     IN req' = [req EXCEPT ![s] =
                  IF ~ActiveGroup(g) THEN Respond(r, 404, "Group not found")
                  ELSE IF groups[g].admin_id # u
                  THEN Respond(r, 403, "Only group admin can remove members")
                  ELSE IF userId = u
                  THEN Respond(r, 400, "Group admin cannot be removed from the group")
                  ELSE [r EXCEPT !.pc = "check_member"]]
  /\ UNCHANGED <<active_users, client, notification_logs, groups, group_members, tasks, task_updates>>
  /\ issued' = issued + 1

RemoveMember_Existing(s) ==
  /\ Running(s, "RemoveMember", "check_member")
  /\ LET r == req[s] IN
     req' = [req EXCEPT ![s] =
               IF MemberRows(r.gid, r.uid) = {}
               THEN Respond(r, 404, "User is not a member of this group")
               ELSE [r EXCEPT !.pc = "delete_member"]]
  /\ UNCHANGED <<active_users, client, notification_logs, groups, group_members, tasks, task_updates, issued>>

\* DELETE FROM group_members WHERE group_id = ? AND user_id = ?
RemoveMember_Delete(s) ==
  /\ Running(s, "RemoveMember", "delete_member")
  /\ group_members' = group_members \ MemberRows(req[s].gid, req[s].uid)
  /\ req' = [req EXCEPT ![s] =
               Respond(req[s], 200, "Member removed from group successfully")]
  /\ UNCHANGED <<active_users, client, notification_logs, groups, tasks, task_updates, issued>>

\* ---------------------------------------------------- DELETE /api/groups/:id
DeleteGroup_Check(s, u, g) ==
  /\ CanStart(s)
  /\ LET r == [Idle EXCEPT !.op = "DeleteGroup", !.user = u, !.gid = g]
     IN req' = [req EXCEPT ![s] =
                  IF ~ActiveGroup(g) THEN Respond(r, 404, "Group not found")
                  ELSE IF groups[g].admin_id # u
                  THEN Respond(r, 403, "Only group admin can delete the group")
                  ELSE [r EXCEPT !.pc = "update_group"]]
  /\ UNCHANGED <<active_users, client, notification_logs, groups, group_members, tasks, task_updates>>
  /\ issued' = issued + 1

\* UPDATE groups SET is_active = false WHERE id = ?
DeleteGroup_Group(s) ==
  /\ Running(s, "DeleteGroup", "update_group")
  /\ groups' = [groups EXCEPT ![req[s].gid].is_active = FALSE]
  /\ req' = [req EXCEPT ![s].pc = "update_tasks"]
  /\ UNCHANGED <<active_users, client, notification_logs, group_members, tasks, task_updates, issued>>

\* the statement with is_active left as it is
DeleteGroup_Tasks_NoCascade(s) ==
  /\ Running(s, "DeleteGroup", "update_tasks")
  /\ req' = [req EXCEPT ![s] = Respond(req[s], 200, "Group deleted successfully")]
  /\ UNCHANGED <<active_users, client, notification_logs, groups, group_members, tasks, task_updates, issued>>

\* UPDATE tasks SET is_active = false WHERE group_id = ?
DeleteGroup_Tasks(s) ==
  /\ Running(s, "DeleteGroup", "update_tasks")
  /\ tasks' = [t \in TaskIds |->
                 IF tasks[t].group_id = req[s].gid
                 THEN [tasks[t] EXCEPT !.is_active = FALSE] ELSE tasks[t]]
  /\ req' = [req EXCEPT ![s] = Respond(req[s], 200, "Group deleted successfully")]
  /\ UNCHANGED <<active_users, client, notification_logs, groups, group_members, task_updates, issued>>

\* ------------------------------------------------------------ task helpers
\* new Date(dateString).toISOString().slice(0, 19).replace('T', ' '): the
\* fraction of the second is cut off
formatDateTime(t) == (t \div TicksPerSecond) * TicksPerSecond

\* start_time DATETIME NOT NULL, end_time DATETIME NOT NULL: a value with a
\* fraction of a second is stored rounded to the second
DatetimeColumn(t) == ((2 * t + TicksPerSecond) \div (2 * TicksPerSecond)) * TicksPerSecond

\* validateTaskCreation: body('end_time').custom(new Date(value) <= new
\* Date(req.body.start_time) throws), and the handler's own time range check
TimeRangeOk(start_time, end_time) == ~(end_time <= start_time)

\* SELECT gm.user_id FROM group_members gm WHERE gm.group_id = ? AND gm.user_id = ?
\* UNION SELECT admin_id FROM groups WHERE id = ? AND admin_id = ?
AssigneeCheck(g, u) ==
  {m.user_id : m \in MemberRows(g, u)} \cup
  {groups[x].admin_id : x \in {y \in GroupIds : y = g /\ groups[y].admin_id = u}}

\* the join without its filter on t.is_active
TaskRows_AnyTask(t) ==
  {[id |-> x, start_time |-> tasks[x].start_time, end_time |-> tasks[x].end_time,
    status |-> tasks[x].status, created_by |-> tasks[x].created_by,
    assigned_to |-> tasks[x].assigned_to, group_id |-> tasks[x].group_id,
    group_admin_id |-> IF tasks[x].group_id \in GroupIds
                       THEN groups[tasks[x].group_id].admin_id ELSE NULL]
     : x \in {y \in TaskIds : y = t}}

\* SELECT t.*, g.admin_id as group_admin_id FROM tasks t
\* LEFT JOIN groups g ON t.group_id = g.id WHERE t.id = ? AND t.is_active = true
TaskRows(t) ==
  {[id |-> x, start_time |-> tasks[x].start_time, end_time |-> tasks[x].end_time,
    status |-> tasks[x].status, created_by |-> tasks[x].created_by,
    assigned_to |-> tasks[x].assigned_to, group_id |-> tasks[x].group_id,
    group_admin_id |-> IF tasks[x].group_id \in GroupIds
                       THEN groups[tasks[x].group_id].admin_id ELSE NULL]
     : x \in {y \in TaskIds : y = t /\ tasks[y].is_active}}

\* the check without its group admin clause
hasAccess_NoGroupAdmin(task, u) ==
  \/ task.created_by = u
  \/ task.assigned_to = u

hasAccess(task, u) ==
  \/ task.created_by = u
  \/ task.assigned_to = u
  \/ (task.group_admin_id # NULL /\ task.group_admin_id = u)

\* requireTaskAccess: the answer of the middleware, 200 standing for next()
requireTaskAccess(u, t) ==
  IF TaskRows(t) = {} THEN 404
  ELSE IF ~hasAccess(CHOOSE task \in TaskRows(t) : TRUE, u) THEN 403
  ELSE 200

AccessMessage(code) ==
  IF code = 404 THEN "Task not found"
  ELSE "Access denied. You do not have permission to access this task."

\* ---------------------------------------------------------- POST /api/tasks
\* validation, then the group check when group_id is given. The handler's
\* locals are computed from the body alone: assignedUserId = assigned_to ||
\* req.user.id, and the formatted times (assigned_to && assigned_to !==
\* req.user.id is assignedUserId # req.user.id)
CreateTask_Begin(s, u, start_time, end_time, assigned_to, group_id) ==
  /\ CanStart(s)
  /\ LET assignedUserId == IF assigned_to # NULL THEN assigned_to ELSE u
         r == [Idle EXCEPT !.op = "CreateTask", !.user = u, !.gid = group_id,
                           !.start_time = formatDateTime(start_time),
                           !.end_time = formatDateTime(end_time),
                           !.assigned_to = assignedUserId]
     IN req' = [req EXCEPT ![s] =
          IF ~TimeRangeOk(start_time, end_time) THEN Respond(r, 400, "Validation failed")
          ELSE IF group_id # NULL
          THEN IF ~ActiveGroup(group_id) THEN Respond(r, 404, "Group not found")
               ELSE [r EXCEPT !.pc = "check_member",
                              !.isGroupAdmin = (groups[group_id].admin_id = u)]
          ELSE IF assignedUserId # u
          THEN Respond(r, 403, "Individual users can only assign tasks to themselves")
          ELSE [r EXCEPT !.pc = "insert_task"]]
  /\ UNCHANGED <<active_users, client, notification_logs, groups, group_members, tasks, task_updates>>
  /\ issued' = issued + 1

\* SELECT user_id FROM group_members WHERE group_id = ? AND user_id = ?
CreateTask_Member(s) ==
  /\ Running(s, "CreateTask", "check_member")
  /\ LET r == req[s]
         isGroupMember == MemberRows(r.gid, r.user) # {}
     IN req' = [req EXCEPT ![s] =
          IF ~r.isGroupAdmin /\ ~isGroupMember
          THEN Respond(r, 403, "You are not a member of this group and cannot create tasks for it")
          ELSE IF r.assigned_to # r.user
          THEN IF ~r.isGroupAdmin
               THEN Respond(r, 403, "Only group admin can assign tasks to other members")
               ELSE [r EXCEPT !.pc = "check_assignee"]
          ELSE [r EXCEPT !.pc = "insert_task"]]
  /\ UNCHANGED <<active_users, client, notification_logs, groups, group_members, tasks, task_updates, issued>>

CreateTask_Assignee(s) ==
  /\ Running(s, "CreateTask", "check_assignee")
  /\ LET r == req[s] IN
     req' = [req EXCEPT ![s] =
          IF AssigneeCheck(r.gid, r.assigned_to) = {}
          THEN Respond(r, 400, "Assigned user is not a member of this group")
          ELSE [r EXCEPT !.pc = "insert_task"]]
  /\ UNCHANGED <<active_users, client, notification_logs, groups, group_members, tasks, task_updates, issued>>

\* INSERT INTO tasks (..., start_time, end_time, ..., created_by, assigned_to, group_id)
\* status and is_active take the column defaults
CreateTask_Insert(s) ==
  /\ Running(s, "CreateTask", "insert_task")
  /\ LET r == req[s]
     IN tasks' = Append(tasks,
          [start_time |-> DatetimeColumn(r.start_time),
           end_time |-> DatetimeColumn(r.end_time),
           status |-> "pending", created_by |-> r.user,
           assigned_to |-> r.assigned_to, group_id |-> r.gid, is_active |-> TRUE])
  /\ req' = [req EXCEPT ![s].pc = "insert_update", ![s].insertId = Len(tasks) + 1]
  /\ UNCHANGED <<active_users, client, notification_logs, groups, group_members, task_updates, issued>>

\* INSERT INTO task_updates VALUES (insertId, user, NULL, 'pending', 'Task created')
CreateTask_Log(s) ==
  /\ Running(s, "CreateTask", "insert_update")
  /\ task_updates' = Append(task_updates,
       [task_id |-> req[s].insertId, user_id |-> req[s].user, old_status |-> NoStatus,
        new_status |-> "pending", notes |-> "Task created"])
  /\ req' = [req EXCEPT ![s] =
       [Respond(req[s], 201, "Task created successfully") EXCEPT !.tid = req[s].insertId]]
  /\ UNCHANGED <<active_users, client, notification_logs, groups, group_members, tasks, issued>>

\* ------------------------------------------------------- PUT /api/tasks/:id
\* after the reassignment check: no fields, then the time range of a request
\* that gives both times
UpdateTask_Validate(r) ==
  IF /\ r.start_time = NULL /\ r.end_time = NULL
     /\ r.status = NoStatus /\ r.assigned_to = NULL
  THEN Respond(r, 400, "No fields to update")
  ELSE IF /\ r.start_time # NULL /\ r.end_time # NULL
          /\ r.end_time <= r.start_time
  THEN Respond(r, 400, "End time must be after start time")
  ELSE [r EXCEPT !.pc = "update_task"]

\* requireTaskAccess, then the handler up to its first statement
UpdateTask_Access(s, u, t, start_time, end_time, status, assigned_to) ==
  /\ CanStart(s)
  /\ LET r == [Idle EXCEPT !.op = "UpdateTask", !.user = u, !.tid = t,
                           !.start_time = start_time, !.end_time = end_time,
                           !.status = status, !.assigned_to = assigned_to]
         access == requireTaskAccess(u, t)
         task == CHOOSE x \in TaskRows(t) : TRUE
         isCreator == task.created_by = u
         isAssignee == task.assigned_to = u
         isGroupAdmin == task.group_admin_id = u
     IN req' = [req EXCEPT ![s] =
          IF access # 200 THEN Respond(r, access, AccessMessage(access))
          ELSE IF ~isCreator /\ ~isAssignee /\ ~isGroupAdmin
          THEN Respond(r, 403, "You do not have permission to update this task")
          ELSE IF assigned_to # NULL /\ ~isCreator /\ ~isGroupAdmin
          THEN Respond(r, 403, "Only task creator or group admin can reassign tasks")
          ELSE IF assigned_to # NULL /\ task.group_id # NULL
          THEN [r EXCEPT !.pc = "check_assignee", !.task = task]
          ELSE UpdateTask_Validate([r EXCEPT !.task = task])]
  /\ UNCHANGED <<active_users, client, notification_logs, groups, group_members, tasks, task_updates>>
  /\ issued' = issued + 1

UpdateTask_Assignee(s) ==
  /\ Running(s, "UpdateTask", "check_assignee")
  /\ LET r == req[s] IN
     req' = [req EXCEPT ![s] =
          IF AssigneeCheck(r.task.group_id, r.assigned_to) = {}
          THEN Respond(r, 400, "Assigned user is not a member of this group")
          ELSE UpdateTask_Validate(r)]
  /\ UNCHANGED <<active_users, client, notification_logs, groups, group_members, tasks, task_updates, issued>>

\* UPDATE tasks SET <the fields given> WHERE id = ?
UpdateTask_Update(s) ==
  /\ Running(s, "UpdateTask", "update_task")
  /\ LET r == req[s]
         old == tasks[r.tid]
     IN tasks' = [tasks EXCEPT ![r.tid] =
          [old EXCEPT
             !.start_time = IF r.start_time # NULL THEN DatetimeColumn(r.start_time)
                            ELSE old.start_time,
             !.end_time = IF r.end_time # NULL THEN DatetimeColumn(r.end_time)
                          ELSE old.end_time,
             !.status = IF r.status # NoStatus THEN r.status ELSE old.status,
             !.assigned_to = IF r.assigned_to # NULL THEN r.assigned_to
                             ELSE old.assigned_to]]
  /\ req' = [req EXCEPT ![s].pc = "insert_update"]
  /\ UNCHANGED <<active_users, client, notification_logs, groups, group_members, task_updates, issued>>

\* INSERT INTO task_updates VALUES (taskId, user, oldValues.status || task.status,
\*                                  status || task.status, updateNotes)
UpdateTask_Log(s) ==
  /\ Running(s, "UpdateTask", "insert_update")
  /\ LET r == req[s] IN
     task_updates' = Append(task_updates,
       [task_id |-> r.tid, user_id |-> r.user, old_status |-> r.task.status,
        new_status |-> IF r.status # NoStatus THEN r.status ELSE r.task.status,
        notes |-> "field: old -> new"])
  /\ req' = [req EXCEPT ![s] = Respond(req[s], 200, "Task updated successfully")]
  /\ UNCHANGED <<active_users, client, notification_logs, groups, group_members, tasks, issued>>

\* ------------------------------------------------ PUT /api/tasks/:id/status
\* validateTaskIdParam: param('taskId').isInt({ min: 1 }), on the route's
\* req.params
validateTaskIdParam(params) == params.taskId # NULL /\ params.taskId >= 1

\* the route is '/:id/status': req.params holds id and no taskId
StatusRouteParams(t) == [id |-> t, taskId |-> NULL]

UpdateStatus_Access(s, u, t, status) ==
  /\ CanStart(s)
  /\ LET r == [Idle EXCEPT !.op = "UpdateStatus", !.user = u, !.tid = t,
                           !.status = status]
         access == requireTaskAccess(u, t)
         task == CHOOSE x \in TaskRows(t) : TRUE
         canUpdateStatus == hasAccess(task, u)
     IN req' = [req EXCEPT ![s] =
          IF ~validateTaskIdParam(StatusRouteParams(t))
          THEN Respond(r, 400, "Validation failed")
          ELSE IF access # 200 THEN Respond(r, access, AccessMessage(access))
          ELSE IF ~canUpdateStatus
          THEN Respond(r, 403, "You do not have permission to update this task status")
          ELSE [r EXCEPT !.pc = "update_status", !.task = task]]
  /\ UNCHANGED <<active_users, client, notification_logs, groups, group_members, tasks, task_updates>>
  /\ issued' = issued + 1

\* UPDATE tasks SET status = ? WHERE id = ?
UpdateStatus_Update(s) ==
  /\ Running(s, "UpdateStatus", "update_status")
  /\ tasks' = [tasks EXCEPT ![req[s].tid].status = req[s].status]
  /\ req' = [req EXCEPT ![s].pc = "insert_update"]
  /\ UNCHANGED <<active_users, client, notification_logs, groups, group_members, task_updates, issued>>

\* INSERT INTO task_updates VALUES (taskId, user, oldStatus, status, notes)
UpdateStatus_Log(s) ==
  /\ Running(s, "UpdateStatus", "insert_update")
  /\ LET r == req[s] IN
     task_updates' = Append(task_updates,
       [task_id |-> r.tid, user_id |-> r.user, old_status |-> r.task.status,
        new_status |-> r.status, notes |-> "Status changed from X to Y"])
  /\ req' = [req EXCEPT ![s] = Respond(req[s], 200, "Task status updated successfully")]
  /\ UNCHANGED <<active_users, client, notification_logs, groups, group_members, tasks, issued>>

\* ---------------------------------------------------- DELETE /api/tasks/:id
DeleteTask_Access(s, u, t) ==
  /\ CanStart(s)
  /\ LET r == [Idle EXCEPT !.op = "DeleteTask", !.user = u, !.tid = t]
         access == requireTaskAccess(u, t)
         task == CHOOSE x \in TaskRows(t) : TRUE
         canDelete == \/ task.created_by = u
                      \/ (task.group_admin_id # NULL /\ task.group_admin_id = u)
     IN req' = [req EXCEPT ![s] =
          IF access # 200 THEN Respond(r, access, AccessMessage(access))
          ELSE IF ~canDelete
          THEN Respond(r, 403, "Only task creator or group admin can delete tasks")
          ELSE [r EXCEPT !.pc = "update_task", !.task = task]]
  /\ UNCHANGED <<active_users, client, notification_logs, groups, group_members, tasks, task_updates>>
  /\ issued' = issued + 1

\* UPDATE tasks SET is_active = false WHERE id = ?
DeleteTask_Update(s) ==
  /\ Running(s, "DeleteTask", "update_task")
  /\ tasks' = [tasks EXCEPT ![req[s].tid].is_active = FALSE]
  /\ req' = [req EXCEPT ![s].pc = "insert_update"]
  /\ UNCHANGED <<active_users, client, notification_logs, groups, group_members, task_updates, issued>>

\* INSERT INTO task_updates VALUES (taskId, user, task.status, NULL, 'Task deleted')
DeleteTask_Log(s) ==
  /\ Running(s, "DeleteTask", "insert_update")
  /\ LET r == req[s] IN
     task_updates' = Append(task_updates,
       [task_id |-> r.tid, user_id |-> r.user, old_status |-> r.task.status,
        new_status |-> NoStatus, notes |-> "Task deleted"])
  /\ req' = [req EXCEPT ![s] = Respond(req[s], 200, "Task deleted successfully")]
  /\ UNCHANGED <<active_users, client, notification_logs, groups, group_members, tasks, issued>>

\* ------------------------------------------------------- GET /api/tasks/:id
\* requireTaskAccess, then SELECT ... WHERE t.id = ? AND t.is_active = true:
\* the status code of the answer
GetTask(u, t) ==
  IF requireTaskAccess(u, t) # 200 THEN requireTaskAccess(u, t)
  ELSE IF TaskRows(t) = {} THEN 404
  ELSE 200

\* ------------------------------------------------------ GET /api/groups/:id
\* requireGroupMember: the membership row joined with its group, the group row
\* (neither query filters on is_active); the answer, 200 standing for next()
requireGroupMember(u, g) ==
  LET membership == {m \in MemberRows(g, u) : m.group_id \in GroupIds}
      groupInfo == {x \in GroupIds : x = g}
  IN IF membership # {} \/ (groupInfo # {} /\ groups[g].admin_id = u) THEN 200
     ELSE 403

\* requireGroupMember, then SELECT g.* ... WHERE g.id = ? AND g.is_active = true:
\* the status code of the answer
GetGroup(u, g) ==
  IF requireGroupMember(u, g) # 200 THEN requireGroupMember(u, g)
  ELSE IF ~ActiveGroup(g) THEN 404
  ELSE 200

\* ----------------------------------------------------------- GET /api/tasks
\* SELECT id FROM groups WHERE admin_id = ? AND is_active = true
adminGroupIds(u) == {g \in GroupIds : groups[g].admin_id = u /\ groups[g].is_active}

\* SELECT group_id FROM group_members WHERE user_id = ?
memberGroupIds(u) == {m.group_id : m \in {x \in group_members : x.user_id = u}}

\* the ids of the tasks listed for u with the query's group_id (NULL: no filter)
ListTasks(u, group_id) ==
  LET accessibleGroupIds == adminGroupIds(u) \cup memberGroupIds(u)
  IN {t \in TaskIds :
        /\ tasks[t].is_active
        /\ \/ tasks[t].created_by = u
           \/ tasks[t].assigned_to = u
           \/ tasks[t].group_id \in accessibleGroupIds
        /\ (group_id # NULL => tasks[t].group_id = group_id)}

\* ------------------------------------------------- GET /api/users/dashboard
\* the ids of the tasks of the dashboard's lists: t.is_active = TRUE AND
\* (t.assigned_to = ? OR t.group_id IN (accessibleGroupIds))
DashboardTasks(u) ==
  LET accessibleGroupIds == adminGroupIds(u) \cup memberGroupIds(u)
  IN {t \in TaskIds :
        /\ tasks[t].is_active
        /\ \/ tasks[t].assigned_to = u
           \/ tasks[t].group_id \in accessibleGroupIds}

\* ----------------------------------------------------------- GET /api/groups
\* the ids of the groups listed for u: baseQuery (g.is_active = true) alone
\* for a superadmin, else the groups u is admin of and those u has an edge in
ListGroups(u) ==
  LET baseQuery == {g \in GroupIds : groups[g].is_active}
      adminGroups == {g \in baseQuery : groups[g].admin_id = u}
      memberGroups == {g \in baseQuery : g \in memberGroupIds(u)}
  IN IF user_type(u) = "superadmin" THEN baseQuery
     ELSE adminGroups \cup memberGroups

\* --------------------------------------------------- GET /api/users/profile
\* the ids of the groups of the profile: groups g LEFT JOIN group_members gm
\* ON g.id = gm.group_id AND gm.user_id = ? WHERE g.admin_id = ? OR
\* gm.user_id = ?
ProfileGroups(u) ==
  {g \in GroupIds : groups[g].admin_id = u \/ MemberRows(g, u) # {}}

\* ----------------------------------------------------------- request inputs
\* the bodies of PUT /api/tasks/:id: times alone, or status and assignee
TaskPatches ==
  {[start_time |-> a, end_time |-> b, status |-> NoStatus, assigned_to |-> NULL]
     : a \in Times \cup {NULL}, b \in Times \cup {NULL}} \cup
  {[start_time |-> NULL, end_time |-> NULL, status |-> st, assigned_to |-> NULL]
     : st \in Statuses} \cup
  {[start_time |-> NULL, end_time |-> NULL, status |-> st, assigned_to |-> a]
     : st \in {NoStatus, "completed"}, a \in Users}

GroupNames == {"g"}
ReqGroupIds == 1..MaxGroupId
ReqTaskIds == 1..MaxTaskId

\* a request arrives and runs up to its first awaited statement
Arrive(s) ==
  \/ CanStart(s) /\ \E u \in Users, n \in GroupNames : CreateGroup_Check(s, u, n)
  \/ CanStart(s) /\ \E u \in Users, g \in ReqGroupIds : DeleteGroup_Check(s, u, g)
  \/ CanStart(s) /\ \E u \in Users, g \in ReqGroupIds, e \in Users \cup {NULL}, ro \in Roles :
       AddMember_Check(s, u, g, e, ro)
  \/ CanStart(s) /\ \E u \in Users, g \in ReqGroupIds, m \in Users : RemoveMember_Check(s, u, g, m)
  \/ CanStart(s) /\ \E u \in Users, a \in Times, b \in Times, as \in Users \cup {NULL},
        g \in ReqGroupIds \cup {NULL} : CreateTask_Begin(s, u, a, b, as, g)
  \/ CanStart(s) /\ \E u \in Users, t \in ReqTaskIds, p \in TaskPatches :
       UpdateTask_Access(s, u, t, p.start_time, p.end_time, p.status, p.assigned_to)
  \/ CanStart(s) /\ \E u \in Users, t \in ReqTaskIds, st \in Statuses : UpdateStatus_Access(s, u, t, st)
  \/ CanStart(s) /\ \E u \in Users, t \in ReqTaskIds : DeleteTask_Access(s, u, t)

\* a request being handled runs its next statement
Step(s) ==
  \/ CreateGroup_Insert(s)
  \/ CreateGroup_Member(s)
  \/ DeleteGroup_Group(s)
  \/ DeleteGroup_Tasks(s)
  \/ AddMember_Existing(s)
  \/ AddMember_Insert(s)
  \/ RemoveMember_Existing(s)
  \/ RemoveMember_Delete(s)
  \/ CreateTask_Member(s)
  \/ CreateTask_Assignee(s)
  \/ CreateTask_Insert(s)
  \/ CreateTask_Log(s)
  \/ UpdateTask_Assignee(s)
  \/ UpdateTask_Update(s)
  \/ UpdateTask_Log(s)
  \/ DeleteTask_Update(s)
  \/ DeleteTask_Log(s)

Next == \E s \in Slots : Arrive(s) \/ Step(s)

Spec == Init /\ [][Next]_vars

\* the awaited statement a request stands before rejects (the datastore fails):
\* the statement changes nothing, asyncHandler passes the rejection to the
\* error middleware and the handler runs no further statement
StatementFails(s) ==
  /\ ~Free(s)
  /\ req' = [req EXCEPT ![s] = errorHandler(req[s])]
  /\ UNCHANGED <<active_users, client, notification_logs, groups, group_members, tasks, task_updates, issued>>

NextFail == \E s \in Slots : Arrive(s) \/ Step(s) \/ StatementFails(s)

SpecFail == Init /\ [][NextFail]_vars

\* the tables once three requests have been answered with nothing else running:
\* POST /api/groups by user 1 (group 1 and its admin edge), POST
\* /api/groups/1/members adding user 2 as a member, POST /api/tasks by user 1
\* for group 1 (task 1, pending, assigned to its creator, and its seed row)
InitSeeded ==
  /\ groups = <<[name |-> "g", admin_id |-> 1, is_active |-> TRUE]>>
  /\ group_members = {[group_id |-> 1, user_id |-> 1, role |-> "admin"],
                      [group_id |-> 1, user_id |-> 2, role |-> "member"]}
  /\ tasks = <<[start_time |-> DatetimeColumn(formatDateTime(TicksPerSecond)),
                end_time |-> DatetimeColumn(formatDateTime(2 * TicksPerSecond)),
                status |-> "pending", created_by |-> 1, assigned_to |-> 1,
                group_id |-> 1, is_active |-> TRUE]>>
  /\ task_updates = <<[task_id |-> 1, user_id |-> 1, old_status |-> NoStatus,
                       new_status |-> "pending", notes |-> "Task created"]>>
  /\ notification_logs = <<>>
  /\ active_users = Users
  /\ client = NoClient
  /\ req = [s \in Slots |-> Idle]
  /\ issued = 0

SpecSeeded == InitSeeded /\ [][Next]_vars

\* ------------------------------------------------------ notification logs
\* retry_count >= 3: 'Maximum retry attempts reached'
MaxRetries == 3
\* the rows of notification_logs when the server starts (written by the
\* scheduled job that sends the reminders)
NumLogs == 1

\* status ENUM('pending', 'sent', 'failed', 'delivered')
LogStatuses == {"pending", "sent", "failed", "delivered"}
LogIds == 1..Len(notification_logs)
ReqLogIds == 1..NumLogs

\* POST /api/notifications/test, up to INSERT INTO notification_logs (task_id,
\* ...) VALUES (NULL, ...): task_id is INT NOT NULL, the statement is rejected
\* outside the handler's try and the error middleware answers; no row is written
TestSend_Insert(s, u) ==
  /\ CanStart(s)
  /\ req' = [req EXCEPT ![s] = errorHandler([Idle EXCEPT !.op = "TestSend", !.user = u])]
  /\ UNCHANGED <<active_users, client, groups, group_members, tasks, task_updates, notification_logs>>
  /\ issued' = issued + 1

\* the handler after an insert that succeeded (never the case with the table
\* as it is created): UPDATE ... SET status = 'sent' WHERE id = insertId
TestSend_Sent(s) ==
  /\ Running(s, "TestSend", "sent")
  /\ notification_logs' = [notification_logs EXCEPT ![req[s].insertId].status = "sent"]
  /\ req' = [req EXCEPT ![s] = Respond(req[s], 200, "Test notification sent successfully")]
  /\ UNCHANGED <<active_users, client, groups, group_members, tasks, task_updates, issued>>

\* the delivery timer of a test send: UPDATE ... SET status = 'delivered'
\* WHERE id = insertId
TestSend_Delivered(n) ==
  /\ n \in LogIds
  /\ notification_logs' = [notification_logs EXCEPT ![n].status = "delivered"]
  /\ UNCHANGED <<active_users, client, groups, group_members, tasks, task_updates, req, issued>>

\* POST /api/notifications/:id/retry: SELECT ... WHERE nl.id = ? AND
\* nl.user_id = ?, then the checks on the row that was read
Retry_Select(s, u, n) ==
  /\ CanStart(s)
  /\ LET r == [Idle EXCEPT !.op = "Retry", !.user = u, !.nid = n]
         notifications == {i \in LogIds : i = n /\ notification_logs[i].user_id = u}
     IN req' = [req EXCEPT ![s] =
          IF notifications = {} THEN Respond(r, 404, "Notification not found")
          ELSE IF notification_logs[n].status # "failed"
          THEN Respond(r, 400, "Only failed notifications can be retried")
          ELSE IF notification_logs[n].retry_count >= MaxRetries
          THEN Respond(r, 400, "Maximum retry attempts reached")
          ELSE [r EXCEPT !.pc = "reset"]]
  /\ UNCHANGED <<active_users, client, groups, group_members, tasks, task_updates, notification_logs>>
  /\ issued' = issued + 1

\* UPDATE ... SET status = 'pending', retry_count = retry_count + 1 WHERE id = ?
Retry_Reset(s) ==
  /\ Running(s, "Retry", "reset")
  /\ notification_logs' = [notification_logs EXCEPT
       ![req[s].nid].status = "pending",
       ![req[s].nid].retry_count = notification_logs[req[s].nid].retry_count + 1]
  /\ req' = [req EXCEPT ![s].pc = "sent"]
  /\ UNCHANGED <<active_users, client, groups, group_members, tasks, task_updates, issued>>

\* UPDATE ... SET status = 'sent' WHERE id = ?
Retry_Sent(s) ==
  /\ Running(s, "Retry", "sent")
  /\ notification_logs' = [notification_logs EXCEPT ![req[s].nid].status = "sent"]
  /\ req' = [req EXCEPT ![s] = Respond(req[s], 200, "Notification retry initiated successfully")]
  /\ UNCHANGED <<active_users, client, groups, group_members, tasks, task_updates, issued>>

\* a statement of the try block rejects: the handler goes to its catch
Retry_Throws(s) ==
  /\ Running(s, "Retry", "reset") \/ Running(s, "Retry", "sent")
  /\ req' = [req EXCEPT ![s].pc = "failed"]
  /\ UNCHANGED <<active_users, client, groups, group_members, tasks, task_updates, notification_logs, issued>>

\* catch: UPDATE ... SET status = 'failed', error_message = ? WHERE id = ?
Retry_Failed(s) ==
  /\ Running(s, "Retry", "failed")
  /\ notification_logs' = [notification_logs EXCEPT ![req[s].nid].status = "failed"]
  /\ req' = [req EXCEPT ![s] = Respond(req[s], 500, "Failed to retry notification")]
  /\ UNCHANGED <<active_users, client, groups, group_members, tasks, task_updates, issued>>

\* ------------------------------------------------------- /api/superadmin
\* the role tags a principal's user_type is compared with
UserTypes == {"individual", "group_admin", "superadmin"}

\* a JavaScript string used as a condition: only the empty string is falsy
Truthy(str) == str # ""

\* requireSuperAdmin: if (req.user.user_type !== 'superadmin' || 'group_admin')
\* answers 403; 200 stands for next()
requireSuperAdmin(type) ==
  IF type # "superadmin" \/ Truthy("group_admin") THEN 403 ELSE 200

\* GET /api/superadmin/users by a principal whose user_type is type:
\* router.use(requireSuperAdmin), then SELECT id, email, password FROM users
SuperadminUsers(s, u, type) ==
  /\ CanStart(s)
  /\ LET r == [Idle EXCEPT !.op = "SuperadminUsers", !.user = u, !.user_type = type]
     IN req' = [req EXCEPT ![s] =
          IF requireSuperAdmin(type) # 200
          THEN Respond(r, 403, "Superadmin access required")
          ELSE Respond(r, 200, "users")]
  /\ UNCHANGED <<active_users, client, groups, group_members, tasks, task_updates, notification_logs>>
  /\ issued' = issued + 1

\* the server with logs in the table and no group or task: the logs of the
\* scheduled job, each in any status and retried up to MaxRetries times
InitNotify ==
  /\ groups = <<>>
  /\ group_members = {}
  /\ tasks = <<>>
  /\ task_updates = <<>>
  /\ notification_logs \in [1..NumLogs -> [user_id : Users, status : LogStatuses,
                                           retry_count : 0..MaxRetries]]
  /\ active_users = Users
  /\ client = NoClient
  /\ req = [s \in Slots |-> Idle]
  /\ issued = 0

ArriveNotify(s) ==
  \/ CanStart(s) /\ \E u \in Users : TestSend_Insert(s, u)
  \/ CanStart(s) /\ \E u \in Users, n \in ReqLogIds : Retry_Select(s, u, n)
  \/ CanStart(s) /\ \E u \in Users, type \in UserTypes : SuperadminUsers(s, u, type)

StepNotify(s) ==
  \/ Retry_Reset(s)
  \/ Retry_Sent(s)
  \/ Retry_Throws(s)
  \/ Retry_Failed(s)

NextNotify == \E s \in Slots : ArriveNotify(s) \/ StepNotify(s)

SpecNotify == InitNotify /\ [][NextNotify]_vars

\* ---------------------------------------------------------------- /api/auth
\* what a request may carry as its token
ReqTokens == Tokens \cup {NoToken}

\* jwt.verify(token, secret, { ignoreExpiration }): the signature is checked
\* first, then exp unless it is ignored
jwt_verify(token, ignoreExpiration) ==
  IF ~token.signed THEN "JsonWebTokenError"
  ELSE IF token.expired /\ ~ignoreExpiration THEN "TokenExpiredError"
  ELSE "ok"

\* jwt.sign({ userId, ... }, secret, { expiresIn }): a fresh token of user u
jwt_sign(u) == [userId |-> u, signed |-> TRUE, expired |-> FALSE]

\* SELECT ... FROM users WHERE id = ? AND is_active = true
ActiveUser(u) == u \in active_users

\* what an answer is made of
Answer(code, message, newToken) ==
  [code |-> code, message |-> message, newToken |-> newToken]

\* the middleware in front of every protected route: 200 stands for next()
authenticateToken(token) ==
  IF token = NoToken THEN Answer(401, "Access token required", NoToken)
  ELSE IF jwt_verify(token, FALSE) = "JsonWebTokenError"
       THEN Answer(401, "Invalid token format", NoToken)
  ELSE IF jwt_verify(token, FALSE) = "TokenExpiredError"
       THEN Answer(401, "Token expired", NoToken)
  ELSE IF ~ActiveUser(token.userId)
       THEN Answer(401, "Invalid token or user not found", NoToken)
  ELSE Answer(200, "next", NoToken)

\* POST /api/auth/verify
verify(token) ==
  IF token = NoToken THEN Answer(400, "Token is required", NoToken)
  ELSE IF jwt_verify(token, FALSE) = "JsonWebTokenError"
       THEN Answer(401, "Invalid token", NoToken)
  ELSE IF jwt_verify(token, FALSE) = "TokenExpiredError"
       THEN Answer(401, "Token expired", NoToken)
  ELSE IF ~ActiveUser(token.userId)
       THEN Answer(401, "Invalid token or user not found", NoToken)
  ELSE Answer(200, "Token is valid", NoToken)

\* POST /api/auth/refresh, without the look at is_active
refresh_AnyUser(token) ==
  IF token = NoToken THEN Answer(400, "Token is required", NoToken)
  ELSE IF jwt_verify(token, TRUE) = "JsonWebTokenError"
       THEN Answer(401, "Invalid token", NoToken)
  ELSE Answer(200, "Token refreshed successfully", jwt_sign(token.userId))

\* POST /api/auth/refresh
refresh(token) ==
  IF token = NoToken THEN Answer(400, "Token is required", NoToken)
  ELSE IF jwt_verify(token, TRUE) = "JsonWebTokenError"
       THEN Answer(401, "Invalid token", NoToken)
  ELSE IF ~ActiveUser(token.userId)
       THEN Answer(401, "Invalid token or user not found", NoToken)
  ELSE Answer(200, "Token refreshed successfully", jwt_sign(token.userId))

\* a request to one of the three, answered in one step (each handler makes
\* one SELECT and writes nothing)
Answered(s, op, token, a) ==
  /\ CanStart(s)
  /\ LET r == [Idle EXCEPT !.op = op, !.token = token]
     IN req' = [req EXCEPT ![s] =
          [Respond(r, a.code, a.message) EXCEPT !.newToken = a.newToken]]
  /\ UNCHANGED <<active_users, client, groups, group_members, tasks, task_updates,
                 notification_logs>>
  /\ issued' = issued + 1

Authenticated(s, token) == Answered(s, "Authenticated", token, authenticateToken(token))

Verify(s, token) == Answered(s, "Verify", token, verify(token))

Refresh(s, token) == Answered(s, "Refresh", token, refresh(token))

\* users.is_active of user u is set to false (the row stays)
Deactivate(u) ==
  /\ u \in active_users
  /\ active_users' = active_users \ {u}
  /\ UNCHANGED <<client, groups, group_members, tasks, task_updates,
                 notification_logs, req, issued>>

\* -------------------------------------------------- the client's api instance
\* the request is settled: the promise is resolved or rejected
Settled == client.pc \in {"idle", "resolved", "rejected"}

\* api(config): the request interceptor attaches the stored token, the server
\* answers 200 or, from authenticateToken, 401
Client_Request ==
  /\ Settled
  /\ client' = [client EXCEPT !.pc = "response", !.retry = FALSE,
                              !.status = authenticateToken(client.token).code,
                              !.refreshes = 0, !.replays = 0]
  /\ UNCHANGED <<active_users, groups, group_members, tasks, task_updates,
                 notification_logs, req, issued>>

\* the logout at the end of the 401 branch
Logout(c) == [c EXCEPT !.token = NoToken, !.user = FALSE, !.pc = "rejected"]

\* the response interceptor up to its first await, with the _retry mark left
\* unset
Client_Response_Unmarked ==
  /\ client.pc = "response"
  /\ client' =
       IF client.status # 401 THEN [client EXCEPT !.pc = "resolved"]
       ELSE IF client.token # NoToken
            THEN [client EXCEPT !.pc = "refreshing",
                                !.refreshes = client.refreshes + 1]
            ELSE Logout(client)
  /\ UNCHANGED <<active_users, groups, group_members, tasks, task_updates,
                 notification_logs, req, issued>>

\* the response interceptor up to its first await
Client_Response ==
  /\ client.pc = "response"
  /\ client' =
       IF client.status # 401 THEN [client EXCEPT !.pc = "resolved"]
       ELSE IF ~client.retry
            THEN IF client.token # NoToken
                 THEN [client EXCEPT !.retry = TRUE, !.pc = "refreshing",
                                     !.refreshes = client.refreshes + 1]
                 ELSE Logout([client EXCEPT !.retry = TRUE])
       ELSE [client EXCEPT !.pc = "rejected"]
  /\ UNCHANGED <<active_users, groups, group_members, tasks, task_updates,
                 notification_logs, req, issued>>

\* authAPI.post('/auth/refresh', { token }) is answered: on success the new
\* token and the user are stored and the request is sent again, otherwise
\* the client is logged out
Client_Refresh ==
  /\ client.pc = "refreshing"
  /\ LET a == refresh(client.token)
     IN client' =
          IF a.code = 200
          THEN [client EXCEPT !.token = a.newToken, !.user = TRUE,
                              !.pc = "replaying",
                              !.replays = client.replays + 1]
          ELSE Logout(client)
  /\ UNCHANGED <<active_users, groups, group_members, tasks, task_updates,
                 notification_logs, req, issued>>

\* the request sent again is answered
Client_Replay ==
  /\ client.pc = "replaying"
  /\ client' = [client EXCEPT !.pc = "response",
                              !.status = authenticateToken(client.token).code]
  /\ UNCHANGED <<active_users, groups, group_members, tasks, task_updates,
                 notification_logs, req, issued>>

\* the server with its users and no row in the other tables, the client with
\* any token in its localStorage, or none
InitAuth ==
  /\ groups = <<>>
  /\ group_members = {}
  /\ tasks = <<>>
  /\ task_updates = <<>>
  /\ notification_logs = <<>>
  /\ active_users = Users
  /\ \E token \in ReqTokens :
       client = [NoClient EXCEPT !.token = token, !.user = (token # NoToken)]
  /\ req = [s \in Slots |-> Idle]
  /\ issued = 0

ArriveAuth(s) ==
  \/ CanStart(s) /\ \E token \in ReqTokens : Authenticated(s, token)
  \/ CanStart(s) /\ \E token \in ReqTokens : Verify(s, token)
  \/ CanStart(s) /\ \E token \in ReqTokens : Refresh(s, token)

StepClient ==
  \/ Client_Request
  \/ Client_Response
  \/ Client_Refresh
  \/ Client_Replay

NextAuth ==
  \/ \E s \in Slots : ArriveAuth(s)
  \/ \E u \in Users : Deactivate(u)
  \/ StepClient

SpecAuth == InitAuth /\ [][NextAuth]_vars

\* ------------------------------------------------------------------ claims
\* no request is being handled
Quiescent == \A s \in Slots : Free(s)

\* the step is the arrival of a request of route op in slot s
Arrived(s, op) == CanStart(s) /\ issued' = issued + 1 /\ req'[s].op = op

\* the rows of task_updates of task t, in insertion order
Trail(t) == SelectSeq(task_updates, LAMBDA row : row.task_id = t)

\* the status reached by replaying status transitions in order (a row whose
\* new_status is NULL, the deletion's, leaves the status as it is)
RECURSIVE Replay(_)
Replay(rows) ==
  IF rows = <<>> THEN NoStatus
  ELSE LET last == rows[Len(rows)]
       IN IF last.new_status = NoStatus THEN Replay(SubSeq(rows, 1, Len(rows) - 1))
          ELSE last.new_status

\* u is the creator, the assignee or the admin of the group of task t
Related(u, t) ==
  \/ tasks[t].created_by = u
  \/ tasks[t].assigned_to = u
  \/ (tasks[t].group_id \in GroupIds /\ groups[tasks[t].group_id].admin_id = u)

\* C1: every stored task has end_time strictly after start_time, after
\* CreateTask and after every UpdateTask that changes a time
C1_EndAfterStart ==
  \A t \in TaskIds : tasks[t].end_time > tasks[t].start_time

\* C2: when no request is being handled, the trail of every task starts with a
\* row whose old_status is NULL and replaying it gives the stored status
C2_ReplayGivesStatus ==
  Quiescent =>
    \A t \in TaskIds :
      /\ Trail(t) # <<>>
      /\ Trail(t)[1].old_status = NoStatus
      /\ Replay(Trail(t)) = tasks[t].status

\* C3: a created task starts pending with the one trail row (NULL, pending),
\* and an UpdateStatus of the assignee on an active task is not rejected
C3_AssigneeUpdatesStatus ==
  [][\A s \in Slots :
       /\ (Running(s, "CreateTask", "insert_update") /\ req'[s].pc = "done")
            => /\ tasks'[req[s].insertId].status = "pending"
               /\ Len(Trail(req[s].insertId)') = 1
               /\ Trail(req[s].insertId)'[1].old_status = NoStatus
               /\ Trail(req[s].insertId)'[1].new_status = "pending"
       /\ (/\ Arrived(s, "UpdateStatus")
           /\ req'[s].tid \in TaskIds
           /\ tasks[req'[s].tid].is_active
           /\ tasks[req'[s].tid].assigned_to = req'[s].user)
            => ~(req'[s].pc = "done" /\ req'[s].code >= 400)]_vars

\* C4: the task-access check answers 404 for an absent or inactive task
\* whatever the principal's relation to it, and 403 (never 404) for an active
\* task the principal is not creator, assignee or group admin of
C4_AccessCheck ==
  \A u \in Users, t \in ReqTaskIds \cup TaskIds :
    /\ (t \notin TaskIds \/ ~tasks[t].is_active) => requireTaskAccess(u, t) = 404
    /\ (t \in TaskIds /\ tasks[t].is_active /\ ~Related(u, t))
         => requireTaskAccess(u, t) = 403

\* a request on an active task was answered 403 by the access check, its
\* principal having no relation to the task
C4_Witness ==
  \E s \in Slots :
    /\ req[s].pc = "done" /\ req[s].op \in {"UpdateTask", "DeleteTask"}
    /\ req[s].code = 403 /\ req[s].message = AccessMessage(403)
    /\ req[s].tid \in TaskIds /\ tasks[req[s].tid].is_active
    /\ ~Related(req[s].user, req[s].tid)

\* C5: a RemoveMember whose user_id is the admin of the (existing) group is
\* answered with an error at once and leaves group_members as it is, whoever
\* asks
C5_AdminNotRemoved ==
  [][\A s \in Slots :
       (/\ Arrived(s, "RemoveMember")
        /\ req'[s].gid \in GroupIds
        /\ req'[s].uid = groups[req'[s].gid].admin_id)
         => /\ req'[s].pc = "done"
            /\ req'[s].code >= 400
            /\ group_members' = group_members]_vars

\* the admin of an active group asked to remove themself and was refused,
\* the admin edge still being there
C5_Witness ==
  \E s \in Slots :
    /\ req[s].pc = "done" /\ req[s].op = "RemoveMember"
    /\ ActiveGroup(req[s].gid)
    /\ req[s].uid = groups[req[s].gid].admin_id
    /\ req[s].user = req[s].uid
    /\ req[s].code = 400
    /\ MemberRows(req[s].gid, req[s].uid) # {}

\* C6: every active group has the edge (group, admin_id) with role admin in
\* group_members, in every state
C6_AdminEdge ==
  \A g \in GroupIds :
    groups[g].is_active =>
      [group_id |-> g, user_id |-> groups[g].admin_id, role |-> "admin"]
        \in group_members

\* C7: no pair (group, user) has more than one edge, and of two answered
\* AddMember requests for the same pair that got past the group, admin and
\* user checks, each either succeeded or was answered with the conflict
\* 'User is already a member of this group'
C7_AddMemberOnce ==
  /\ \A g \in GroupIds, u \in Users : Cardinality(MemberRows(g, u)) <= 1
  /\ \A s1 \in Slots : \A s2 \in Slots \ {s1} :
       (/\ req[s1].pc = "done" /\ req[s1].op = "AddMember"
        /\ req[s2].pc = "done" /\ req[s2].op = "AddMember"
        /\ req[s1].gid = req[s2].gid /\ req[s1].uid = req[s2].uid
        /\ req[s1].code \notin {403, 404} /\ req[s2].code \notin {403, 404}
        /\ req[s1].uid # groups[req[s1].gid].admin_id)
         => \/ req[s1].code = 201
            \/ /\ req[s1].code = 400
               /\ req[s1].message = "User is already a member of this group"

\* C8: an UpdateStatus on an active task by a principal who is not its
\* creator, assignee or group admin is answered 403 and changes neither the
\* task nor the trail
C8_OutsiderForbidden ==
  [][\A s \in Slots :
       (/\ Arrived(s, "UpdateStatus")
        /\ req'[s].tid \in TaskIds
        /\ tasks[req'[s].tid].is_active
        /\ ~Related(req'[s].user, req'[s].tid))
         => /\ req'[s].pc = "done"
            /\ req'[s].code = 403
            /\ tasks' = tasks
            /\ task_updates' = task_updates]_vars

\* a DeleteGroup of group g has run both its statements (none is between them)
DeleteGroupCompleted(g) ==
  /\ g \in GroupIds
  /\ ~groups[g].is_active
  /\ \A s \in Slots : ~(req[s].op = "DeleteGroup" /\ req[s].gid = g /\ ~Free(s))

\* C9: once DeleteGroup has completed, every task of the group is inactive and
\* a listing filtered by the group returns no task, for every principal
C9_NoTaskListed ==
  \A g \in GroupIds :
    DeleteGroupCompleted(g) =>
      /\ \A t \in TaskIds : tasks[t].group_id = g => ~tasks[t].is_active
      /\ \A u \in Users : ListTasks(u, g) = {}

\* C10 as stated: once DeleteGroup has completed, a fetch by ID of a task of
\* the group by its creator or its assignee still returns the task
C10_StillFetched ==
  \A g \in GroupIds :
    DeleteGroupCompleted(g) =>
      \A t \in TaskIds :
        tasks[t].group_id = g =>
          /\ GetTask(tasks[t].created_by, t) = 200
          /\ GetTask(tasks[t].assigned_to, t) = 200

\* C10: the last statement of DeleteGroup leaves every task of the group
\* inactive with created_by, assigned_to and group_id as they were, and a
\* fetch by ID of an inactive task answers 404 for every principal, from then
\* on
C10_InactiveNotFetched ==
  [][/\ \A s \in Slots :
          (Running(s, "DeleteGroup", "update_tasks") /\ req'[s].pc = "done")
            => \A t \in TaskIds :
                 tasks[t].group_id = req[s].gid
                   => /\ ~tasks'[t].is_active
                      /\ tasks'[t].created_by = tasks[t].created_by
                      /\ tasks'[t].assigned_to = tasks[t].assigned_to
                      /\ tasks'[t].group_id = tasks[t].group_id
     /\ \A t \in TaskIds :
          ~tasks[t].is_active
            => /\ ~tasks'[t].is_active
               /\ \A u \in Users : GetTask(u, t)' = 404]_vars

\* DeleteGroup has completed on a group that has a task, and neither its
\* creator nor its assignee can fetch it
C10_Witness ==
  \E s \in Slots, t \in TaskIds :
    /\ req[s].pc = "done" /\ req[s].op = "DeleteGroup" /\ req[s].code = 200
    /\ DeleteGroupCompleted(req[s].gid)
    /\ tasks[t].group_id = req[s].gid
    /\ GetTask(tasks[t].created_by, t) = 404
    /\ GetTask(tasks[t].assigned_to, t) = 404

\* C11: for every active task and every principal the task-access check
\* grants access exactly when the principal is the creator, the assignee or
\* the admin of the task's group; a member of the group who is none of them
\* is denied
C11_AccessIff ==
  \A u \in Users, t \in TaskIds :
    tasks[t].is_active =>
      /\ (requireTaskAccess(u, t) = 200) <=> Related(u, t)
      /\ (MemberRows(tasks[t].group_id, u) # {} /\ ~Related(u, t))
           => requireTaskAccess(u, t) = 403

\* an active task of a group and a member of that group who is neither its
\* creator, its assignee nor the group's admin: the check denies the member
C11_Witness ==
  \E t \in TaskIds, u \in Users :
    /\ tasks[t].is_active
    /\ MemberRows(tasks[t].group_id, u) # {}
    /\ ~Related(u, t)
    /\ requireTaskAccess(u, t) = 403

\* C12: the group-access check answers 404 for an absent or inactive group
\* whoever asks, and for an active group grants access exactly to its admin
\* and to the principals with a membership edge, answering 403 to the others
C12_GroupAccess ==
  \A u \in Users, g \in ReqGroupIds \cup GroupIds :
    IF ~ActiveGroup(g) THEN GetGroup(u, g) = 404
    ELSE IF groups[g].admin_id = u \/ MemberRows(g, u) # {} THEN GetGroup(u, g) = 200
    ELSE GetGroup(u, g) = 403

\* C13: the statement of UpdateTask that changes a task's assignee runs only
\* for a caller who is the task's creator or the admin of its group and, when
\* the task is in a group, for a new assignee who is a member or the admin of
\* that group; a request that is rejected changes no field of the task
C13_ReassignChecked ==
  [][\A s \in Slots :
       /\ (UpdateTask_Update(s) /\ tasks'[req[s].tid].assigned_to # tasks[req[s].tid].assigned_to)
            => LET t == req[s].tid
                   u == req[s].user
                   g == tasks[t].group_id
               IN /\ \/ tasks[t].created_by = u
                     \/ (g \in GroupIds /\ groups[g].admin_id = u)
                  /\ g # NULL => AssigneeCheck(g, tasks'[t].assigned_to) # {}
       /\ (req'[s].op = "UpdateTask" /\ req'[s].pc = "done" /\ req'[s].code >= 400
           /\ req'[s] # req[s])
            => tasks' = tasks]_vars

\* C14: when CreateTask inserts a task for a group, the group is active, the
\* creator is its admin or has a membership edge, and an assignee other than
\* the creator is set only by the group's admin and is a member or the admin;
\* a task inserted without a group is assigned to its creator
C14_CreateChecked ==
  [][\A s \in Slots :
       CreateTask_Insert(s) =>
         LET g == req[s].gid
             u == req[s].user
             a == req[s].assigned_to
         IN IF g = NULL THEN a = u
            ELSE /\ ActiveGroup(g)
                 /\ groups[g].admin_id = u \/ MemberRows(g, u) # {}
                 /\ a # u => groups[g].admin_id = u /\ AssigneeCheck(g, a) # {}]_vars

\* C15: in every reachable state no two active groups of the same admin have
\* the same name
C15_UniqueGroupName ==
  \A g1 \in GroupIds : \A g2 \in GroupIds \ {g1} :
    (groups[g1].is_active /\ groups[g2].is_active
     /\ groups[g1].admin_id = groups[g2].admin_id)
      => groups[g1].name # groups[g2].name

\* C16: CreateGroup succeeds only for a principal whose role is group_admin: a
\* request of an individual principal is rejected, so every group row and
\* every admin edge belongs to a principal the admin guard lets through
C16_OnlyGroupAdminCreates ==
  /\ \A g \in GroupIds : requireAdmin(groups[g].admin_id) = 200
  /\ \A m \in group_members : m.role = "admin" => requireAdmin(m.user_id) = 200

\* C17: DeleteTask completes only for the task's creator or the admin of its
\* group; when it completes the task is inactive and its trail holds exactly
\* one 'Task deleted' row, the one just appended, whose old_status is the
\* task's status and whose new_status is null; a DeleteTask that is rejected
\* changes neither the task nor the trail
C17_DeleteTerminal ==
  [][\A s \in Slots :
       /\ DeleteTask_Log(s) =>
            LET t == req[s].tid
                u == req[s].user
                g == tasks[t].group_id
                last == task_updates'[Len(task_updates')]
            IN /\ \/ tasks[t].created_by = u
                  \/ (g \in GroupIds /\ groups[g].admin_id = u)
               /\ ~tasks'[t].is_active
               /\ last = [task_id |-> t, user_id |-> u, old_status |-> tasks[t].status,
                          new_status |-> NoStatus, notes |-> "Task deleted"]
               /\ Len(SelectSeq(Trail(t)', LAMBDA row : row.notes = "Task deleted")) = 1
       /\ (req'[s].op = "DeleteTask" /\ req'[s].pc = "done" /\ req'[s].code >= 400
           /\ req'[s] # req[s])
            => tasks' = tasks /\ task_updates' = task_updates]_vars

\* C18: no listing or query returns a soft-deleted row: the task listing and
\* the dashboard return active tasks only, and the group listing, the group
\* detail and the group list of the profile return active groups only
C18_NoSoftDeletedListed ==
  \A u \in Users :
    /\ \A t \in ListTasks(u, NULL) \cup DashboardTasks(u) : tasks[t].is_active
    /\ \A g \in ListGroups(u) \cup ProfileGroups(u) : groups[g].is_active
    /\ \A g \in GroupIds : GetGroup(u, g) = 200 => groups[g].is_active

\* C19: every step that changes the status of a task moves it forwards along
\* pending, in_progress, completed, or from pending or in_progress to overdue:
\* never backwards, never out of completed, never from completed to overdue
C19_StatusForward ==
  [][\A t \in TaskIds :
       tasks'[t].status # tasks[t].status =>
         <<tasks[t].status, tasks'[t].status>> \in
           {<<"pending", "in_progress">>, <<"in_progress", "completed">>,
            <<"pending", "completed">>, <<"pending", "overdue">>,
            <<"in_progress", "overdue">>}]_vars

\* C20: a task mutation is atomic over the Task row and its Task Update row,
\* also when the datastore fails between the two statements of a handler: once
\* no request is being handled, every task has its seed row and every row of
\* the trail belongs to a task
C20_SeedRowPresent ==
  Quiescent =>
    /\ \A t \in TaskIds :
         \E i \in 1..Len(task_updates) :
           task_updates[i].task_id = t /\ task_updates[i].notes = "Task created"
    /\ \A i \in 1..Len(task_updates) : task_updates[i].task_id \in TaskIds

\* C21: the trail is append-only and loses no history: no step modifies or
\* removes a row, and once no request is being handled every event applied to
\* a task has its row, so that a task that has been soft-deleted has a 'Task
\* deleted' row in its trail
C21_TrailKeepsHistory ==
  [][/\ Len(task_updates') >= Len(task_updates)
     /\ SubSeq(task_updates', 1, Len(task_updates)) = task_updates
     /\ Quiescent' =>
          \A t \in 1..Len(tasks') :
            ~tasks'[t].is_active =>
              \E i \in 1..Len(task_updates') :
                /\ task_updates'[i].task_id = t
                /\ task_updates'[i].notes = "Task deleted"]_vars

C24_AddMemberChecked ==
  [][\A s \in Slots :
       /\ (AddMember_Insert(s) /\ group_members' # group_members)
            => /\ ActiveGroup(req[s].gid)
               /\ groups[req[s].gid].admin_id = req[s].user
               /\ UserByEmail(req[s].uid) # {}
               /\ MemberRows(req[s].gid, req[s].uid) = {}
       /\ (req'[s].op = "AddMember" /\ req'[s].pc = "done" /\ req'[s].code >= 400
           /\ req'[s] # req[s])
            => group_members' = group_members]_vars

C26_SuperadminOnly ==
  \A s \in Slots :
    (req[s].op = "SuperadminUsers" /\ req[s].pc = "done") =>
      IF req[s].user_type = "superadmin" THEN req[s].code = 200
      ELSE req[s].code = 403

\* C27: no active task references an inactive group, also after a CreateTask
\* for a group has interleaved with the DeleteGroup of that group: once no
\* request is being handled, the group of every active task is active
C27_NoActiveTaskOfInactiveGroup ==
  Quiescent =>
    \A t \in TaskIds :
      (tasks[t].is_active /\ tasks[t].group_id # NULL) => ActiveGroup(tasks[t].group_id)

\* C28: listing and fetch agree: every task the task listing returns to a
\* principal is granted to that principal by the task-access check of the
\* fetch by id
C28_ListedIsFetchable ==
  \A u \in Users : \A t \in ListTasks(u, NULL) : requireTaskAccess(u, t) = 200

\* C29: a refresh issues a new token exactly when the presented token is
\* signed and its user is active, expired or not, and the new token is that
\* user's; and no authenticated request, verify or refresh that presents a
\* token of a deactivated user is answered 200 or given a token.
C29_RefreshIffSignedAndActive ==
  [][\A s \in Slots :
       /\ Arrived(s, "Refresh") =>
             LET r == req'[s]
             IN /\ (r.code = 200) <=>
                     (r.token.signed /\ r.token.userId \in active_users)
                /\ (r.newToken # NoToken) <=> (r.code = 200)
                /\ r.code = 200 => r.newToken = jwt_sign(r.token.userId)
       /\ \A op \in {"Authenticated", "Verify", "Refresh"} :
             Arrived(s, op) /\ req'[s].token.userId \notin active_users
               => req'[s].code # 200 /\ req'[s].newToken = NoToken]_vars

\* an expired, signed token of an active user was refreshed: the answer is
\* 200 and carries a fresh token of that user
C29_Witness ==
  \E s \in Slots :
    /\ req[s].op = "Refresh" /\ req[s].pc = "done"
    /\ req[s].token.signed /\ req[s].token.expired
    /\ req[s].token.userId \in active_users
    /\ req[s].code = 200 /\ req[s].newToken = jwt_sign(req[s].token.userId)

\* C30 as stated: for each API request the interceptor makes at most one
\* refresh and at most one replay, and whenever the request is rejected (the
\* refresh failed or the replay was answered 401 again) the stored token and
\* user are cleared.
C30_ClearedWheneverRejected ==
  /\ client.refreshes <= 1
  /\ client.replays <= 1
  /\ client.pc = "rejected" => client.token = NoToken /\ ~client.user

\* C30: for each API request the interceptor makes at most one refresh and
\* at most one replay, and every step of the handling brings the request
\* closer to being settled (unanswered > refreshing > replaying > answered
\* again > settled), so no request is retried indefinitely; a request
\* rejected without a replay (no stored token, or the refresh failed) leaves
\* the stored token and user cleared, a request rejected after its replay was
\* answered 401 again leaves the refreshed token and user stored.
C30_InterceptorTerminates ==
  [][LET rank(c) == CASE c.pc = "response" /\ ~c.retry -> 4
                      [] c.pc = "refreshing" -> 3
                      [] c.pc = "replaying" -> 2
                      [] c.pc = "response" /\ c.retry -> 1
                      [] OTHER -> 0
     IN (client' # client) =>
          /\ ~Settled => rank(client') < rank(client)
          /\ client'.refreshes <= 1
          /\ client'.replays <= 1
          /\ client'.pc = "rejected" /\ client'.replays = 0
               => client'.token = NoToken /\ ~client'.user
          /\ client'.pc = "rejected" /\ client'.replays = 1
               => /\ client'.status = 401
                  /\ client'.token = client.token /\ client'.token # NoToken
                  /\ client'.user]_vars

\* a request was rejected after one refresh and one replay that was answered
\* 401 again: the refreshed token is still stored
C30_Witness ==
  /\ client.pc = "rejected"
  /\ client.refreshes = 1 /\ client.replays = 1
  /\ client.status = 401
  /\ client.token # NoToken /\ client.user

====
